---- MODULE Spec2Model ----
(***************************************************************************)
(* Model of examples/livehunt_network_watch.py: one run of main(), from    *)
(* argument parsing through get_rulesets(), the reconciliation of the      *)
(* domain list, build_rulesets() and the pool of upload_rulesets()         *)
(* workers joined by asyncio.gather().                                     *)
(*                                                                         *)
(* Domains are the naturals 1..NumDomains, standing for domain strings in  *)
(* ascending lexicographic order; NoDomain stands for an option that was   *)
(* not given (None).  The coroutines are cut at their suspension points:   *)
(* the await of get_rulesets(), the await of gather(), and in a worker the *)
(* await of the remote write (Queue.get() on a non-empty queue and         *)
(* Queue.put() on an unbounded queue do not suspend).                      *)
(***************************************************************************)
EXTENDS Integers, Sequences, FiniteSets, TLC

\* ---- bounds
NumDomains == 2
MaxLen == 2
MaxWorkers == 3

\* ---- program constants
RULESET_ENTITY == <<"file", "url", "domain", "ip_address">>
RULESET_PREFIX == "auto_network_watch_"

NoDomain == 0
Domains == 1..NumDomains
Entities == {RULESET_ENTITY[i] : i \in 1..Len(RULESET_ENTITY)}
NoTask == [entity |-> "none"]

VARIABLES pc, args, rulesets, domains, new_domain_list, queue, unfinished,
          wpc, wtask, deqs, writes, dones, outcome, exit_status

vars == <<pc, args, rulesets, domains, new_domain_list, queue, unfinished,
          wpc, wtask, deqs, writes, dones, outcome, exit_status>>

\* ---- helpers on Python lists
RECURSIVE SeqsUpTo(_)
SeqsUpTo(n) ==
  IF n = 0 THEN {<<>>}
  ELSE LET S == SeqsUpTo(n - 1)
       IN S \cup {Append(s, d) : s \in {t \in S : Len(t) = n - 1}, d \in Domains}

\* the domain lists a remote record may hold: any order, any repetition
StoredLists == SeqsUpTo(MaxLen)

Range(l) == {l[i] : i \in 1..Len(l)}

\* `x in list`
Contains(l, d) == \E i \in 1..Len(l) : l[i] = d

\* list.remove(d): removes the first occurrence only
Remove(l, d) ==
  LET i == CHOOSE j \in 1..Len(l) : l[j] = d /\ \A k \in 1..(j - 1) : l[k] # d
  IN [k \in 1..(Len(l) - 1) |-> IF k < i THEN l[k] ELSE l[k + 1]]

Min(S) == CHOOSE x \in S : \A y \in S : x <= y

RECURSIVE SortSet(_)
SortSet(S) ==
  IF S = {} THEN <<>>
  ELSE <<Min(S)>> \o SortSet(S \ {Min(S)})

\* variant: the list is left as it was, neither deduplicated nor sorted
Canonical_asis(l) == l

\* new_domain_list = list(set(new_domain_list)); new_domain_list.sort()
Canonical(l) == SortSet(Range(l))

\* new_domain_list.append(args.add_domain) when the option is truthy
AddDomain(l, a) == IF a # NoDomain THEN Append(l, a) ELSE l

\* ---- rendering and parsing of rule text
\* body with the JSON domain list, then one rule block per domain; a block
\* is the kind's template filled with the domain (its escaped form is a
\* function of the domain and is not kept apart)
render_template(entity, doms) ==
  [body |-> doms,
   blocks |-> [i \in 1..Len(doms) |-> <<entity, doms[i]>>]]

\* json.loads of the second '---' segment of the comment header
extract_domains_from_rule(rules) == rules.body

RemoteId(entity) == "id_" \o entity

\* the record get_rulesets() stores for one remote document
RulesetRecord(entity, stored) ==
  LET rules == render_template(entity, stored)
  IN [id |-> RemoteId(entity),
      name |-> RULESET_PREFIX \o entity,
      rules |-> rules,
      domains |-> extract_domains_from_rule(rules)]

Init ==
  /\ pc = "start"
  /\ args = [list |-> FALSE, add_domain |-> NoDomain, delete_domain |-> NoDomain,
             workers |-> 0, templates |-> TRUE, api_key |-> TRUE]
  /\ rulesets = <<>>
  /\ domains = <<>>
  /\ new_domain_list = <<>>
  /\ queue = <<>>
  /\ unfinished = 0
  /\ wpc = <<>>
  /\ wtask = <<>>
  /\ deqs = [e \in Entities |-> <<>>]
  /\ writes = [e \in Entities |-> <<>>]
  /\ dones = [e \in Entities |-> <<>>]
  /\ outcome = "running"
  /\ exit_status = -1

\* main(), lines 143-164: parse the arguments, verify templates and API key;
\* requests are the values given to --add-domain and --delete-domain, counts
\* the values given to --workers
main_start(requests, counts) ==
  /\ pc = "start"
  /\ \E l \in BOOLEAN, a \in requests, d \in requests,
        n \in counts, t \in BOOLEAN, k \in BOOLEAN :
       /\ args' = [list |-> l, add_domain |-> a, delete_domain |-> d,
                   workers |-> n, templates |-> t, api_key |-> k]
       /\ IF ~t
            THEN pc' = "done" /\ outcome' = "no_templates" /\ exit_status' = 1
            ELSE IF ~k
              THEN pc' = "done" /\ outcome' = "no_api_key" /\ exit_status' = 0
              ELSE pc' = "get_rulesets" /\ UNCHANGED <<outcome, exit_status>>
  /\ UNCHANGED <<rulesets, domains, new_domain_list, queue, unfinished,
                 wpc, wtask, deqs, writes, dones>>

\* get_rulesets(): the records collected before the iterator ended or failed;
\* lists are the domain lists the remote records may hold
get_rulesets(lists) ==
  /\ pc = "get_rulesets"
  /\ \E fetched \in SUBSET Entities, stored \in lists :
       rulesets' = [e \in fetched |-> RulesetRecord(e, stored)]
  /\ pc' = "reconcile"
  /\ UNCHANGED <<args, domains, new_domain_list, queue, unfinished,
                 wpc, wtask, deqs, writes, dones, outcome, exit_status>>

\* task.get('id') is falsy when build_rulesets() did not set it
NoId == ""

\* variant: the test on the add option is inverted
EmptyRulesets_inverted(rs, a) == DOMAIN rs = {} /\ a # NoDomain

\* line 167: `not rulesets and not args.add_domain`
EmptyRulesets(rs, a) == DOMAIN rs = {} /\ a = NoDomain

\* line 171: rulesets.get('url', {}).get('domains', [])
CurrentDomains(rs) == IF "url" \in DOMAIN rs THEN rs["url"].domains ELSE <<>>

\* variant: every task takes the id of the 'url' record
SyncTask_urlid(entity, rs, doms) ==
  [name |-> RULESET_PREFIX \o entity,
   entity |-> entity,
   rules |-> render_template(entity, doms),
   id |-> IF "url" \in DOMAIN rs THEN rs["url"].id ELSE NoId]

\* lines 93-98: the task of one entity kind
SyncTask(entity, rs, doms) ==
  [name |-> RULESET_PREFIX \o entity,
   entity |-> entity,
   rules |-> render_template(entity, doms),
   id |-> IF entity \in DOMAIN rs THEN rs[entity].id ELSE NoId]

\* variant: the rule text is rendered from the fetched list, not the new one
build_rulesets_stale(rs, doms) ==
  [i \in 1..Len(RULESET_ENTITY) |->
     SyncTask(RULESET_ENTITY[i], rs, CurrentDomains(rs))]

\* build_rulesets(): the tasks put on the queue, in order
build_rulesets(rs, doms) ==
  [i \in 1..Len(RULESET_ENTITY) |-> SyncTask(RULESET_ENTITY[i], rs, doms)]

\* main(), lines 167-208: reconcile the list and start the dispatch
main_reconcile ==
  /\ pc = "reconcile"
  /\ LET doms == CurrentDomains(rulesets)
         added == AddDomain(doms, args.add_domain)
         del == args.delete_domain
         notfound == del # NoDomain /\ ~Contains(added, del)
         removed == IF del # NoDomain /\ ~notfound THEN Remove(added, del) ELSE added
         newl == Canonical(removed)
         tasks == build_rulesets(rulesets, newl)
     IN
     IF EmptyRulesets(rulesets, args.add_domain)
       THEN /\ pc' = "done" /\ outcome' = "empty" /\ exit_status' = 1
            /\ UNCHANGED <<domains, new_domain_list, queue, unfinished, wpc, wtask>>
     ELSE IF args.list
       THEN /\ pc' = "done" /\ exit_status' = 0
            /\ outcome' = IF doms = <<>> THEN "empty" ELSE "listed"
            /\ domains' = doms
            /\ UNCHANGED <<new_domain_list, queue, unfinished, wpc, wtask>>
     ELSE IF notfound
       THEN /\ pc' = "done" /\ outcome' = "not_found" /\ exit_status' = 1
            /\ domains' = doms
            /\ new_domain_list' = added
            /\ UNCHANGED <<queue, unfinished, wpc, wtask>>
     ELSE IF newl # doms
       THEN /\ pc' = "gather" /\ outcome' = "updating"
            /\ domains' = doms
            /\ new_domain_list' = newl
            /\ queue' = tasks
            /\ unfinished' = Len(tasks)
            /\ wpc' = [w \in 1..args.workers |-> "created"]
            /\ wtask' = [w \in 1..args.workers |-> NoTask]
            /\ UNCHANGED exit_status
     ELSE /\ pc' = "done" /\ outcome' = "nothing_to_do" /\ exit_status' = 0
          /\ domains' = doms
          /\ new_domain_list' = newl
          /\ UNCHANGED <<queue, unfinished, wpc, wtask>>
  /\ UNCHANGED <<args, rulesets, deqs, writes, dones>>

\* variant: the head is read but stays on the queue
Dequeue_peek(q) == q

\* queue.get(): the head leaves the queue
Dequeue(q) == Tail(q)

\* lines 109-134: patch when the task carries an id, else create
RemoteCall(task, w) ==
  IF task.id # NoId
    THEN [op |-> "patch", id |-> task.id, name |-> task.name,
          entity |-> task.entity, rules |-> task.rules,
          worker |-> w, result |-> "pending"]
    ELSE [op |-> "create", id |-> NoId, name |-> task.name,
          entity |-> task.entity, rules |-> task.rules,
          worker |-> w, result |-> "pending"]

\* variant: the APIError is not caught and leaves the worker
OnWriteResult_raise(result) == IF result = "error" THEN "raise" ELSE "continue"

\* lines 120 and 136: an APIError is caught and printed, the loop goes on
OnWriteResult(result) == "continue"

\* lines 105-134: the loop test, the dequeue and the start of the remote call;
\* wr is the write log as the worker's previous iteration left it
LoopHead(w, wr) ==
  IF queue = <<>>
    THEN /\ wpc' = [wpc EXCEPT ![w] = "finished"]
         /\ wtask' = [wtask EXCEPT ![w] = NoTask]
         /\ writes' = wr
         /\ UNCHANGED <<queue, deqs>>
    ELSE LET task == Head(queue)
         IN /\ queue' = Dequeue(queue)
            /\ deqs' = [deqs EXCEPT ![task.entity] = Append(@, w)]
            /\ wtask' = [wtask EXCEPT ![w] = task]
            /\ writes' = [wr EXCEPT ![task.entity] = Append(@, RemoteCall(task, w))]
            /\ wpc' = [wpc EXCEPT ![w] = "awaiting"]

\* upload_rulesets(): a created worker runs up to its first suspension
upload_start(w) ==
  /\ pc = "gather"
  /\ wpc[w] = "created"
  /\ LoopHead(w, writes)
  /\ UNCHANGED <<pc, args, rulesets, domains, new_domain_list, unfinished,
                 dones, outcome, exit_status>>

\* upload_rulesets(): the remote write returns or raises APIError, the worker
\* calls task_done() and runs the loop up to its next suspension
upload_resume(w) ==
  /\ pc = "gather"
  /\ wpc[w] = "awaiting"
  /\ \E result \in {"ok", "error"} :
       LET e == wtask[w].entity
           wr == [writes EXCEPT ![e][Len(writes[e])].result = result]
       IN IF OnWriteResult(result) = "continue"
            THEN /\ dones' = [dones EXCEPT ![e] = Append(@, w)]
                 /\ unfinished' = unfinished - 1
                 /\ LoopHead(w, wr)
            ELSE /\ wpc' = [wpc EXCEPT ![w] = "raised"]
                 /\ writes' = wr
                 /\ UNCHANGED <<wtask, queue, deqs, dones, unfinished>>
  /\ UNCHANGED <<pc, args, rulesets, domains, new_domain_list, outcome, exit_status>>

\* line 208: gather() resumes main() when every worker task is done, or at
\* once with the first exception a worker raised
gather_return ==
  /\ pc = "gather"
  /\ \/ \A w \in DOMAIN wpc : wpc[w] = "finished"
     \/ \E w \in DOMAIN wpc : wpc[w] = "raised"
  /\ pc' = "done"
  /\ IF \E w \in DOMAIN wpc : wpc[w] = "raised"
       THEN outcome' = "crashed" /\ exit_status' = 1
       ELSE outcome' = "updated" /\ exit_status' = 0
  /\ UNCHANGED <<args, rulesets, domains, new_domain_list, queue, unfinished,
                 wpc, wtask, deqs, writes, dones>>

\* every request over every stored list, with no worker or a single one
Next ==
  \/ main_start({NoDomain} \cup Domains, 0..1)
  \/ get_rulesets(StoredLists)
  \/ main_reconcile
  \/ \E w \in DOMAIN wpc : upload_start(w)
  \/ \E w \in DOMAIN wpc : upload_resume(w)
  \/ gather_return

Spec == Init /\ [][Next]_vars

\* every worker count, over an empty or one-element stored list and requests
\* for the first domain
NextPool ==
  \/ main_start({NoDomain, Min(Domains)}, 0..MaxWorkers)
  \/ get_rulesets({<<>>, <<Min(Domains)>>})
  \/ main_reconcile
  \/ \E w \in DOMAIN wpc : upload_start(w)
  \/ \E w \in DOMAIN wpc : upload_resume(w)
  \/ gather_return

SpecPool == Init /\ [][NextPool]_vars

TypeOK ==
  /\ pc \in {"start", "get_rulesets", "reconcile", "gather", "done"}
  /\ exit_status \in {-1, 0, 1}
  /\ unfinished \in 0..Len(RULESET_ENTITY)

\* ---- properties

\* the run went through the reconciliation (lines 182-193) without failing
Reconciled == outcome \in {"updating", "updated", "nothing_to_do"}

NoWrite == \A e \in Entities : writes[e] = <<>> /\ deqs[e] = <<>>

StrictlyAscending(l) == \A i \in 1..(Len(l) - 1) : l[i] < l[i + 1]

Failed(e) == \E i \in 1..Len(writes[e]) : writes[e][i].result = "error"

Succeeded(e) == \E i \in 1..Len(writes[e]) : writes[e][i].result = "ok"

\* C1: when the canonical form of the new list equals the canonical form of
\* the fetched list, the run reports 'nothing to do', enqueues no SyncTask
\* and issues no remote write.
C1_SameListNothingToDo ==
  (Reconciled /\ Canonical(new_domain_list) = Canonical(domains))
    => (outcome = "nothing_to_do" /\ queue = <<>> /\ NoWrite)

\* C2: a delete request naming a domain that is not in the fetched list ends
\* the run with NotFound and a non-zero exit status, with no SyncTask and no
\* remote write, with or without an add request (runs that reach the delete
\* step: no list flag, not stopped by the empty-rulesets test).
C2_DeleteAbsentNotFound ==
  (/\ pc \in {"gather", "done"}
   /\ args.templates /\ args.api_key /\ ~args.list
   /\ ~EmptyRulesets(rulesets, args.add_domain)
   /\ args.delete_domain # NoDomain
   /\ ~Contains(CurrentDomains(rulesets), args.delete_domain))
    => (outcome = "not_found" /\ exit_status = 1 /\ queue = <<>> /\ NoWrite)

\* C3: when the dispatch returns to main(), the queue is empty and every
\* enqueued SyncTask has been dequeued and has had its remote write finish,
\* for every worker count.
C3_JoinBarrier ==
  (pc = "done" /\ outcome = "updated")
    => (/\ queue = <<>>
        /\ \A e \in Entities :
             /\ Len(deqs[e]) = 1
             /\ Len(writes[e]) = 1
             /\ writes[e][1].result \in {"ok", "error"})

\* C4: no SyncTask is dequeued by more than one worker or written more than
\* once; a dequeued task has exactly one remote write call, issued by the
\* worker that dequeued it, and exactly one task_done from that same worker
\* once that worker has left the task.
C4_ProcessedOnce ==
  \A e \in Entities :
    /\ Len(deqs[e]) <= 1
    /\ Len(writes[e]) = Len(deqs[e])
    /\ Len(dones[e]) <= Len(deqs[e])
    /\ (\E i \in 1..Len(queue) : queue[i].entity = e) => deqs[e] = <<>>
    /\ deqs[e] # <<>> =>
         LET w == deqs[e][1]
         IN /\ writes[e][1].worker = w
            /\ dones[e] # <<>> => (dones[e][1] = w /\ writes[e][1].result # "pending")
            /\ dones[e] = <<>> <=> (wpc[w] = "awaiting" /\ wtask[w].entity = e)

\* C5: a remote write that fails with an API error stops neither its worker
\* nor the others: no worker leaves while tasks are queued, no write is
\* retried, and a dispatch with failed writes still returns normally with
\* every task attempted and every worker finished.
C5_FailureIsolated ==
  /\ \A w \in DOMAIN wpc : wpc[w] # "raised" /\ (wpc[w] = "finished" => queue = <<>>)
  /\ \A e \in Entities : Failed(e) => Len(writes[e]) = 1
  /\ (pc = "done" /\ \E e \in Entities : Failed(e)) =>
       /\ outcome = "updated" /\ exit_status = 0
       /\ \A w \in DOMAIN wpc : wpc[w] = "finished"
       /\ \A e \in Entities : Failed(e) \/ Succeeded(e)

\* C6: the new domain list handed to rendering and synchronization is sorted
\* ascending without duplicates, for every fetched list and add/delete.
C6_NewListCanonical ==
  Reconciled =>
    /\ StrictlyAscending(new_domain_list)
    /\ \A i \in 1..Len(queue) : StrictlyAscending(queue[i].rules.body)
    /\ \A e \in Entities : \A i \in 1..Len(writes[e]) :
         StrictlyAscending(writes[e][i].rules.body)

\* C7: when the new list differs from the old one, exactly four SyncTasks are
\* enqueued, for file, url, domain and ip_address in that order, each rendered
\* from the new canonical list; nothing is enqueued afterwards.
C7_FourTasksSameList ==
  [][/\ (pc = "reconcile" /\ Reconciled' /\ new_domain_list' # domains') =>
          /\ Len(queue') = 4
          /\ [i \in 1..4 |-> queue'[i].entity] = <<"file", "url", "domain", "ip_address">>
          /\ \A i \in 1..4 :
               /\ queue'[i].rules.body = new_domain_list'
               /\ Len(queue'[i].rules.blocks) = Len(new_domain_list')
               /\ \A j \in 1..Len(new_domain_list') :
                    queue'[i].rules.blocks[j] = <<queue'[i].entity, new_domain_list'[j]>>
     /\ pc # "reconcile" => Len(queue') <= Len(queue)]_vars

\* C8: the write for a kind is a patch addressed to the id of the record
\* fetched for that kind iff a record was fetched for it, else a create.
C8_PatchIffFetched ==
  \A e \in Entities : \A i \in 1..Len(writes[e]) :
    LET c == writes[e][i]
    IN /\ c.entity = e
       /\ e \in DOMAIN rulesets =>
            /\ c.op = "patch"
            /\ c.id = rulesets[e].id
            /\ \A f \in DOMAIN rulesets \ {e} : c.id # rulesets[f].id
       /\ e \notin DOMAIN rulesets => c.op = "create"

\* the precondition of C9: configuration present, empty current list, no add
C9_Case ==
  /\ pc = "done" /\ args.templates /\ args.api_key
  /\ CurrentDomains(rulesets) = <<>>
  /\ args.add_domain = NoDomain

\* C9 as stated: such a run ends with exit status 1 and issues no remote write.
C9_EmptyListExitsOne == C9_Case => (exit_status = 1 /\ NoWrite)

\* C9 amended: such a run issues no remote write; it ends with exit status 1
\* when no record at all was fetched or when a delete is requested without
\* the list flag, and with exit status 0 otherwise.
C9_EmptyListNoWrite ==
  C9_Case =>
    /\ NoWrite /\ queue = <<>>
    /\ exit_status =
         IF DOMAIN rulesets = {} \/ (~args.list /\ args.delete_domain # NoDomain)
           THEN 1 ELSE 0

\* C10: when a delete request for d does not fail with NotFound, d is not a
\* member of the new canonical list.
C10_DeletedDomainAbsent ==
  (Reconciled /\ args.delete_domain # NoDomain)
    => ~Contains(new_domain_list, args.delete_domain)

\* ---- witnesses

\* two workers hold different tasks while a third task is already done
C4_Witness ==
  /\ pc = "gather"
  /\ \E v, w \in DOMAIN wpc :
       v # w /\ wpc[v] = "awaiting" /\ wpc[w] = "awaiting"
  /\ \E e \in Entities : dones[e] # <<>>

\* a dispatch that returned although one write failed and another succeeded
C5_Witness ==
  /\ pc = "done" /\ outcome = "updated"
  /\ \E e, f \in Entities : Failed(e) /\ Succeeded(f)

\* an unsorted or repeating fetched list, with both an add and a delete
C6_Witness ==
  /\ outcome = "updating"
  /\ ~StrictlyAscending(domains)
  /\ args.add_domain # NoDomain /\ args.delete_domain # NoDomain

\* four tasks on the queue although only the 'file' record was fetched
C7_Witness ==
  /\ pc = "gather" /\ Len(queue) = 4
  /\ DOMAIN rulesets = {"file"}
  /\ new_domain_list # <<>>

\* a finished dispatch that issued both a patch and a create
C8_Witness ==
  /\ pc = "done"
  /\ \E e, f \in Entities :
       /\ writes[e] # <<>> /\ writes[e][1].op = "patch"
       /\ writes[f] # <<>> /\ writes[f][1].op = "create"

\* list and delete given, other kinds fetched but not 'url': exit status 0
C9_Witness ==
  /\ C9_Case
  /\ args.list /\ args.delete_domain # NoDomain
  /\ DOMAIN rulesets = {"file", "domain"}
  /\ exit_status = 0
====
